---- MODULE Spec2Model ----
(***************************************************************************)
(* State-machine model of the project-management backend                   *)
(* (projects/models.py, projects/schema.py): four tables in an ownership   *)
(* chain Organization <- Project <- Task <- TaskComment, the nine GraphQL  *)
(* mutations and the project_statistics query.                             *)
(*                                                                         *)
(* Every mutation is modelled by two pure operators, the code before the   *)
(* "with transaction.atomic()" block (lookup and validation, ...Begin) and *)
(* the persistence step (...Write).  The sequential specification Spec     *)
(* runs a handler as one step; ConcSpec lets the database interleave two   *)
(* requests between the two halves; TreeSpec does so for a stream of       *)
(* creates, deletes and saves along the ownership chain.                   *)
(***************************************************************************)
EXTENDS Integers, Sequences, FiniteSets, TLC

VARIABLES organizations, projects, tasks, comments, nextId, reqs, last, calls

vars == <<organizations, projects, tasks, comments, nextId, reqs, last, calls>>

(***************************************************************************)
(* Bounds                                                                  *)
(***************************************************************************)
\* number of mutations a client issues one after the other
MaxCalls == 1

(***************************************************************************)
(* Values.  An optional GraphQL argument (Python None when omitted) and a  *)
(* nullable column are sequences of length 0 (None) or 1 (the value).      *)
(* Organization names, e-mail addresses and comment contents are sequences *)
(* of characters, because the code parses them (slugify, validate_email,   *)
(* strip); the other text fields are opaque strings.                       *)
(***************************************************************************)
Nothing == <<>>

Some(v) == <<v>>

\* Python truthiness of an optional string argument: None and "" are falsy
TruthyStr(o) == o # Nothing /\ o[1] # ""

\* ... and of an optional character sequence
TruthySeq(o) == o # Nothing /\ o[1] # <<>>

\* models.py STATUS_CHOICES / TASK_STATUS_CHOICES (the coded values)
STATUS_CHOICES == {"ACTIVE", "COMPLETED", "ON_HOLD"}

TASK_STATUS_CHOICES == {"TODO", "IN_PROGRESS", "DONE"}

(***************************************************************************)
(* Library functions the handlers call                                     *)
(***************************************************************************)
\* str.lower() on the alphabet used here
LowerChar(ch) == IF ch = "A" THEN "a" ELSE IF ch = "B" THEN "b" ELSE ch

Lower(s) == [i \in 1..Len(s) |-> LowerChar(s[i])]

\* re.sub(r"[^\w\s-]", "", value): keep word characters, whitespace, hyphen
WordChars == {"a", "b", "A", "B", "_"}

KeepSlugChars(s) == SelectSeq(s, LAMBDA ch : ch \in WordChars \cup {" ", "-"})

\* re.sub(r"[-\s]+", "-", value): every run of hyphens/whitespace becomes "-"
RECURSIVE CollapseRuns(_)
CollapseRuns(s) ==
  IF s = <<>> THEN <<>>
  ELSE IF s[1] \in {" ", "-"}
       THEN IF Len(s) > 1 /\ s[2] \in {" ", "-"}
            THEN CollapseRuns(Tail(s))
            ELSE <<"-">> \o CollapseRuns(Tail(s))
       ELSE <<s[1]>> \o CollapseRuns(Tail(s))

\* str.strip(chars)
RECURSIVE LStrip(_, _)
LStrip(s, chars) ==
  IF s # <<>> /\ s[1] \in chars THEN LStrip(Tail(s), chars) ELSE s

RECURSIVE RStrip(_, _)
RStrip(s, chars) ==
  IF s # <<>> /\ s[Len(s)] \in chars
  THEN RStrip(SubSeq(s, 1, Len(s) - 1), chars) ELSE s

Strip(s, chars) == RStrip(LStrip(s, chars), chars)

\* django.utils.text.slugify applied to an already lowered name
Slugify(s) == Strip(CollapseRuns(KeepSlugChars(Lower(s))), {"-", "_"})

\* django.core.validators.validate_email: TRUE when no ValidationError.
\* One "@", a non-empty dot-atom before it, a dotted domain after it.
DotAtom(s) ==
  /\ s # <<>>
  /\ s[1] # "." /\ s[Len(s)] # "."
  /\ \A i \in 1..Len(s) - 1 : ~(s[i] = "." /\ s[i + 1] = ".")

validate_email(e) ==
  LET ats == {i \in 1..Len(e) : e[i] = "@"} IN
  /\ Cardinality(ats) = 1
  /\ LET p == CHOOSE i \in ats : TRUE
         user == SubSeq(e, 1, p - 1)
         domain == SubSeq(e, p + 1, Len(e))
     IN /\ DotAtom(user)
        /\ DotAtom(domain)
        /\ \E i \in 1..Len(domain) : domain[i] = "."

(***************************************************************************)
(* The database: a record of the four tables (functions from primary key   *)
(* to row) and the auto-increment sequences.                               *)
(***************************************************************************)
DB ==
  [organizations |-> organizations, projects |-> projects, tasks |-> tasks,
   comments |-> comments, nextId |-> nextId]

Ids(table) == DOMAIN table

\* table with one row added or replaced
Put(table, id, row) ==
  [k \in DOMAIN table \cup {id} |-> IF k = id THEN row ELSE table[k]]

\* table without the rows whose key is in ids
Drop(table, ids) == [k \in DOMAIN table \ ids |-> table[k]]

\* mutation payload: {entity-or-null, success, errors}
Ok(id) == [success |-> TRUE, errors |-> <<>>, entity |-> <<id>>]

Fail(errors) == [success |-> FALSE, errors |-> errors, entity |-> <<>>]

\* str(e) of the exception a failing persistence step raises
DatabaseError == "database error"

IntegrityErrorUnique == "UNIQUE constraint failed: organization.slug"

IntegrityErrorForeignKey == "FOREIGN KEY constraint failed"

\* what the first half of a handler leaves behind: either the payload it
\* returned early (done) or the objects it loaded
Returned(c, result) ==
  [call |-> c, done |-> TRUE, result |-> result, obj |-> <<>>, at |-> 0]

Loaded(c, obj) ==
  [call |-> c, done |-> FALSE, result |-> Fail(<<>>), obj |-> obj, at |-> 0]

Out(d, result) == [db |-> d, result |-> result]

\* mutant: no transaction, the writes made before the exception stay
AtomicNoRollback(before, partial) == partial

\* "with transaction.atomic()" (and the transaction Model.delete() opens) when
\* an exception leaves the block: the writes made so far are rolled back
Atomic(before, partial) == before

(***************************************************************************)
(* Constraints the schema of models.py puts on the tables                  *)
(***************************************************************************)
\* mutant: the slug column is not declared unique
UniqueSlugNotEnforced(d, slug) == FALSE

\* Organization.slug = SlugField(unique=True): an INSERT of a stored slug fails
UniqueSlugViolated(d, slug) ==
  \E o \in Ids(d.organizations) : d.organizations[o].slug = slug

\* mutant: the foreign keys are not constraints of the database
ForeignKeyNotEnforced(parents, id) == FALSE

\* ForeignKey(...): an INSERT whose parent row is not stored fails
ForeignKeyViolated(parents, id) == id \notin Ids(parents)

\* on_delete=models.CASCADE, Task.project: the tasks deleted with projects pids
TasksOf(d, pids) == {t \in Ids(d.tasks) : d.tasks[t].project \in pids}

\* mutant: the comments' foreign key does not cascade
CommentsOfNoCascade(d, tids) == {}

\* on_delete=models.CASCADE, TaskComment.task: the comments deleted with tasks tids
CommentsOf(d, tids) == {k \in Ids(d.comments) : d.comments[k].task \in tids}

(***************************************************************************)
(* CreateOrganization.mutate                                               *)
(***************************************************************************)
\* Organization.objects.filter(slug=slug).exists()
SlugExists(d, slug) ==
  \E o \in Ids(d.organizations) : d.organizations[o].slug = slug

CreateOrganizationBegin(d, c) ==
  LET slug == Slugify(Lower(c.name))
      errors ==
        (IF validate_email(c.contact_email) THEN <<>> ELSE <<"Invalid email format">>)
        \o (IF SlugExists(d, slug)
            THEN <<"Organization with this slug already exists">> ELSE <<>>)
  IN IF errors # <<>> THEN Returned(c, Fail(errors)) ELSE Loaded(c, <<slug>>)

CreateOrganizationWrite(d, ctx, fault) ==
  LET c == ctx.call
      slug == ctx.obj[1]
      id == d.nextId.organization
      row == [name |-> c.name, slug |-> slug, contact_email |-> c.contact_email]
      new == [d EXCEPT !.organizations = Put(@, id, row),
                       !.nextId.organization = @ + 1]
  IN IF UniqueSlugViolated(d, slug) THEN Out(d, Fail(<<IntegrityErrorUnique>>))
     ELSE IF fault THEN Out(Atomic(d, new), Fail(<<DatabaseError>>))
     ELSE Out(new, Ok(id))

(***************************************************************************)
(* CreateProject.mutate                                                    *)
(***************************************************************************)
\* mutant: the missing organization is collected like any other error
CreateProjectBeginCollectAll(d, c) ==
  LET errors ==
        (IF c.organization_id \notin Ids(d.organizations)
         THEN <<"Organization not found">> ELSE <<>>)
        \o (IF TruthyStr(c.status) /\ c.status[1] \notin STATUS_CHOICES
            THEN <<"Invalid status choice">> ELSE <<>>)
  IN IF errors # <<>> THEN Returned(c, Fail(errors))
     ELSE Loaded(c, <<c.organization_id>>)

CreateProjectBegin(d, c) ==
  IF c.organization_id \notin Ids(d.organizations)
  THEN Returned(c, Fail(<<"Organization not found">>))
  ELSE LET errors ==
             IF TruthyStr(c.status) /\ c.status[1] \notin STATUS_CHOICES
             THEN <<"Invalid status choice">> ELSE <<>>
       IN IF errors # <<>> THEN Returned(c, Fail(errors))
          ELSE Loaded(c, <<c.organization_id>>)

CreateProjectWrite(d, ctx, fault) ==
  LET c == ctx.call
      id == d.nextId.project
      row == [organization |-> ctx.obj[1],
              name |-> c.name,
              description |-> IF TruthyStr(c.description) THEN c.description[1] ELSE "",
              status |-> IF TruthyStr(c.status) THEN c.status[1] ELSE "ACTIVE",
              due_date |-> c.due_date]
      new == [d EXCEPT !.projects = Put(@, id, row), !.nextId.project = @ + 1]
  IN IF ForeignKeyViolated(d.organizations, row.organization)
     THEN Out(d, Fail(<<IntegrityErrorForeignKey>>))
     ELSE IF fault THEN Out(Atomic(d, new), Fail(<<DatabaseError>>))
     ELSE Out(new, Ok(id))

(***************************************************************************)
(* CreateTask.mutate                                                       *)
(***************************************************************************)
CreateTaskBegin(d, c) ==
  IF c.project_id \notin Ids(d.projects)
  THEN Returned(c, Fail(<<"Project not found">>))
  ELSE LET errors ==
             (IF TruthyStr(c.status) /\ c.status[1] \notin TASK_STATUS_CHOICES
              THEN <<"Invalid status choice">> ELSE <<>>)
             \o (IF TruthySeq(c.assignee_email) /\ ~validate_email(c.assignee_email[1])
                 THEN <<"Invalid assignee email format">> ELSE <<>>)
       IN IF errors # <<>> THEN Returned(c, Fail(errors))
          ELSE Loaded(c, <<c.project_id>>)

CreateTaskWrite(d, ctx, fault) ==
  LET c == ctx.call
      id == d.nextId.task
      row == [project |-> ctx.obj[1],
              title |-> c.title,
              description |-> IF TruthyStr(c.description) THEN c.description[1] ELSE "",
              status |-> IF TruthyStr(c.status) THEN c.status[1] ELSE "TODO",
              assignee_email |->
                IF TruthySeq(c.assignee_email) THEN c.assignee_email[1] ELSE <<>>,
              due_date |-> c.due_date]
      new == [d EXCEPT !.tasks = Put(@, id, row), !.nextId.task = @ + 1]
  IN IF ForeignKeyViolated(d.projects, row.project)
     THEN Out(d, Fail(<<IntegrityErrorForeignKey>>))
     ELSE IF fault THEN Out(Atomic(d, new), Fail(<<DatabaseError>>))
     ELSE Out(new, Ok(id))

(***************************************************************************)
(* CreateTaskComment.mutate                                                *)
(***************************************************************************)
Whitespace == {" "}

\* mutant: the handler goes on to the persistence step although errors is not empty
CreateTaskCommentBeginUnchecked(d, c) ==
  IF c.task_id \notin Ids(d.tasks)
  THEN Returned(c, Fail(<<"Task not found">>))
  ELSE Loaded(c, <<c.task_id>>)

CreateTaskCommentBegin(d, c) ==
  IF c.task_id \notin Ids(d.tasks)
  THEN Returned(c, Fail(<<"Task not found">>))
  ELSE LET errors ==
             (IF validate_email(c.author_email) THEN <<>>
              ELSE <<"Invalid author email format">>)
             \o (IF Strip(c.content, Whitespace) = <<>>
                 THEN <<"Comment content cannot be empty">> ELSE <<>>)
       IN IF errors # <<>> THEN Returned(c, Fail(errors))
          ELSE Loaded(c, <<c.task_id>>)

\* mutant: the content is stored as it was sent
CreateTaskCommentWriteUntrimmed(d, ctx, fault) ==
  LET c == ctx.call
      id == d.nextId.comment
      row == [task |-> ctx.obj[1], content |-> c.content,
              author_email |-> c.author_email]
  IN Out([d EXCEPT !.comments = Put(@, id, row), !.nextId.comment = @ + 1], Ok(id))

CreateTaskCommentWrite(d, ctx, fault) ==
  LET c == ctx.call
      id == d.nextId.comment
      row == [task |-> ctx.obj[1],
              content |-> Strip(c.content, Whitespace),
              author_email |-> c.author_email]
      new == [d EXCEPT !.comments = Put(@, id, row), !.nextId.comment = @ + 1]
  IN IF ForeignKeyViolated(d.tasks, row.task)
     THEN Out(d, Fail(<<IntegrityErrorForeignKey>>))
     ELSE IF fault THEN Out(Atomic(d, new), Fail(<<DatabaseError>>))
     ELSE Out(new, Ok(id))

(***************************************************************************)
(* Model.save() of an object loaded earlier: an UPDATE of every column of  *)
(* the row with that primary key and, when no row has it any more, an      *)
(* INSERT of the object (which the foreign key then has to allow).         *)
(***************************************************************************)
Save(table, id, row, parents, parent) ==
  IF id \in Ids(table) THEN [ok |-> TRUE, table |-> Put(table, id, row)]
  ELSE IF ForeignKeyViolated(parents, parent) THEN [ok |-> FALSE, table |-> table]
  ELSE [ok |-> TRUE, table |-> Put(table, id, row)]

(***************************************************************************)
(* UpdateProject.mutate                                                    *)
(***************************************************************************)
UpdateProjectBegin(d, c) ==
  IF c.project_id \notin Ids(d.projects)
  THEN Returned(c, Fail(<<"Project not found">>))
  ELSE LET errors ==
             IF TruthyStr(c.status) /\ c.status[1] \notin STATUS_CHOICES
             THEN <<"Invalid status choice">> ELSE <<>>
       IN IF errors # <<>> THEN Returned(c, Fail(errors))
          ELSE Loaded(c, <<d.projects[c.project_id]>>)

\* the assignments inside the atomic block, on the loaded object
UpdateProjectAssign(c, project) ==
  [project EXCEPT
     !.name = IF c.name # Nothing THEN c.name[1] ELSE @,
     !.description = IF c.description # Nothing THEN c.description[1] ELSE @,
     !.status = IF c.status # Nothing THEN c.status[1] ELSE @,
     !.due_date = IF c.due_date # Nothing THEN c.due_date ELSE @]

UpdateProjectWrite(d, ctx, fault) ==
  LET c == ctx.call
      id == c.project_id
      row == UpdateProjectAssign(c, ctx.obj[1])
      saved == Save(d.projects, id, row, d.organizations, row.organization)
      new == [d EXCEPT !.projects = saved.table]
  IN IF ~saved.ok THEN Out(d, Fail(<<IntegrityErrorForeignKey>>))
     ELSE IF fault THEN Out(Atomic(d, new), Fail(<<DatabaseError>>))
     ELSE Out(new, Ok(id))

(***************************************************************************)
(* UpdateTask.mutate                                                       *)
(***************************************************************************)
\* mutant: the assignee e-mail is validated whenever it is supplied, the
\* empty string included
UpdateTaskBeginValidateSupplied(d, c) ==
  IF c.task_id \notin Ids(d.tasks)
  THEN Returned(c, Fail(<<"Task not found">>))
  ELSE LET errors ==
             (IF TruthyStr(c.status) /\ c.status[1] \notin TASK_STATUS_CHOICES
              THEN <<"Invalid status choice">> ELSE <<>>)
             \o (IF c.assignee_email # Nothing /\ ~validate_email(c.assignee_email[1])
                 THEN <<"Invalid assignee email format">> ELSE <<>>)
       IN IF errors # <<>> THEN Returned(c, Fail(errors))
          ELSE Loaded(c, <<d.tasks[c.task_id]>>)

UpdateTaskBegin(d, c) ==
  IF c.task_id \notin Ids(d.tasks)
  THEN Returned(c, Fail(<<"Task not found">>))
  ELSE LET errors ==
             (IF TruthyStr(c.status) /\ c.status[1] \notin TASK_STATUS_CHOICES
              THEN <<"Invalid status choice">> ELSE <<>>)
             \o (IF TruthySeq(c.assignee_email) /\ ~validate_email(c.assignee_email[1])
                 THEN <<"Invalid assignee email format">> ELSE <<>>)
       IN IF errors # <<>> THEN Returned(c, Fail(errors))
          ELSE Loaded(c, <<d.tasks[c.task_id]>>)

\* mutant: description is assigned "description or ''" whether supplied or not
UpdateTaskAssignClobber(c, task) ==
  [task EXCEPT
     !.title = IF c.title # Nothing THEN c.title[1] ELSE @,
     !.description = IF TruthyStr(c.description) THEN c.description[1] ELSE "",
     !.status = IF c.status # Nothing THEN c.status[1] ELSE @,
     !.assignee_email = IF c.assignee_email # Nothing THEN c.assignee_email[1] ELSE @,
     !.due_date = IF c.due_date # Nothing THEN c.due_date ELSE @]

UpdateTaskAssign(c, task) ==
  [task EXCEPT
     !.title = IF c.title # Nothing THEN c.title[1] ELSE @,
     !.description = IF c.description # Nothing THEN c.description[1] ELSE @,
     !.status = IF c.status # Nothing THEN c.status[1] ELSE @,
     !.assignee_email = IF c.assignee_email # Nothing THEN c.assignee_email[1] ELSE @,
     !.due_date = IF c.due_date # Nothing THEN c.due_date ELSE @]

\* mutant: an optimistic check refuses the write when the row is no longer
\* the one that was loaded
UpdateTaskWriteVersioned(d, ctx, fault) ==
  LET c == ctx.call
      id == c.task_id
      row == UpdateTaskAssign(c, ctx.obj[1])
  IN IF id \notin Ids(d.tasks) \/ d.tasks[id] # ctx.obj[1]
     THEN Out(d, Fail(<<"Task was modified concurrently">>))
     ELSE Out([d EXCEPT !.tasks = Put(@, id, row)], Ok(id))

UpdateTaskWrite(d, ctx, fault) ==
  LET c == ctx.call
      id == c.task_id
      row == UpdateTaskAssign(c, ctx.obj[1])
      saved == Save(d.tasks, id, row, d.projects, row.project)
      new == [d EXCEPT !.tasks = saved.table]
  IN IF ~saved.ok THEN Out(d, Fail(<<IntegrityErrorForeignKey>>))
     ELSE IF fault THEN Out(Atomic(d, new), Fail(<<DatabaseError>>))
     ELSE Out(new, Ok(id))

(***************************************************************************)
(* DeleteProject / DeleteTask / DeleteTaskComment .mutate                  *)
(* Model.delete() collects the rows that cascade and deletes them, the     *)
(* dependants first, with the row in one transaction.                      *)
(***************************************************************************)
Deleted == [success |-> TRUE, errors |-> <<>>, entity |-> <<>>]

DeleteProjectBegin(d, c) ==
  IF c.project_id \notin Ids(d.projects)
  THEN Returned(c, Fail(<<"Project not found">>))
  ELSE Loaded(c, <<>>)

\* project.delete(), first half: the collector reads the tasks that cascade,
\* before the transaction of the deletes is opened
DeleteProjectCollect(d, ctx) ==
  [ctx EXCEPT !.obj = <<TasksOf(d, {ctx.call.project_id})>>]

\* project.delete(), second half, in one transaction: the comments of the
\* collected tasks (selected by the DELETE itself), the collected tasks, then
\* the project, which Task.project's foreign key refuses while a task that
\* was not collected references it
DeleteProjectWrite(d, ctx, fault) ==
  LET pids == {ctx.call.project_id}
      collected == IF ctx.obj = <<>> THEN DeleteProjectCollect(d, ctx) ELSE ctx
      tids == collected.obj[1]
      kids == CommentsOf(d, tids)
      dependants == [d EXCEPT !.tasks = Drop(@, tids), !.comments = Drop(@, kids)]
  IN IF fault THEN Out(Atomic(d, dependants), Fail(<<DatabaseError>>))
     ELSE IF TasksOf(dependants, pids) # {}
          THEN Out(Atomic(d, dependants), Fail(<<IntegrityErrorForeignKey>>))
          ELSE Out([dependants EXCEPT !.projects = Drop(@, pids)], Deleted)

DeleteTaskBegin(d, c) ==
  IF c.task_id \notin Ids(d.tasks)
  THEN Returned(c, Fail(<<"Task not found">>))
  ELSE Loaded(c, <<>>)

DeleteTaskWrite(d, ctx, fault) ==
  LET tids == {ctx.call.task_id}
      kids == CommentsOf(d, tids)
      dependants == [d EXCEPT !.comments = Drop(@, kids)]
  IN IF fault THEN Out(Atomic(d, dependants), Fail(<<DatabaseError>>))
     ELSE Out([dependants EXCEPT !.tasks = Drop(@, tids)], Deleted)

DeleteTaskCommentBegin(d, c) ==
  IF c.comment_id \notin Ids(d.comments)
  THEN Returned(c, Fail(<<"Comment not found">>))
  ELSE Loaded(c, <<>>)

DeleteTaskCommentWrite(d, ctx, fault) ==
  IF fault THEN Out(Atomic(d, d), Fail(<<DatabaseError>>))
  ELSE Out([d EXCEPT !.comments = Drop(@, {ctx.call.comment_id})], Deleted)

(***************************************************************************)
(* Query.resolve_project_statistics                                        *)
(***************************************************************************)
\* mutant: the rate is cut to one decimal instead of rounded
TruncateTenths(num, den) == (1000 * num) \div den

\* round(x, 1) of x = 100 * num / den, in tenths (ties to even, as Python)
RoundTenths(num, den) ==
  LET q == (1000 * num) \div den
      r == (1000 * num) % den
  IN IF 2 * r < den THEN q
     ELSE IF 2 * r > den THEN q + 1
     ELSE IF q % 2 = 0 THEN q ELSE q + 1

\* the result's completion_rate is carried in tenths of a percent
resolve_project_statistics(d, organization_slug) ==
  LET orgs == {o \in Ids(d.organizations) :
                 d.organizations[o].slug = organization_slug}
  IN IF orgs = {} THEN [raised |-> TRUE, message |-> "Organization not found"]
     ELSE LET org == CHOOSE o \in orgs : TRUE
              ps == {p \in Ids(d.projects) : d.projects[p].organization = org}
              ts == {t \in Ids(d.tasks) : d.tasks[t].project \in ps}
              Count(S, table, status) ==
                Cardinality({x \in S : table[x].status = status})
              total_tasks == Cardinality(ts)
              completed_tasks == Count(ts, d.tasks, "DONE")
          IN [raised |-> FALSE,
              total_projects |-> Cardinality(ps),
              active_projects |-> Count(ps, d.projects, "ACTIVE"),
              completed_projects |-> Count(ps, d.projects, "COMPLETED"),
              on_hold_projects |-> Count(ps, d.projects, "ON_HOLD"),
              total_tasks |-> total_tasks,
              completed_tasks |-> completed_tasks,
              completion_rate |->
                IF total_tasks > 0 THEN RoundTenths(completed_tasks, total_tasks)
                ELSE 0]

(***************************************************************************)
(* Dispatch (class Mutation) and a whole handler run without interleaving  *)
(***************************************************************************)
Begin(d, c) ==
  CASE c.op = "create_organization" -> CreateOrganizationBegin(d, c)
    [] c.op = "create_project" -> CreateProjectBegin(d, c)
    [] c.op = "create_task" -> CreateTaskBegin(d, c)
    [] c.op = "create_task_comment" -> CreateTaskCommentBegin(d, c)
    [] c.op = "update_project" -> UpdateProjectBegin(d, c)
    [] c.op = "update_task" -> UpdateTaskBegin(d, c)
    [] c.op = "delete_project" -> DeleteProjectBegin(d, c)
    [] c.op = "delete_task" -> DeleteTaskBegin(d, c)
    [] c.op = "delete_task_comment" -> DeleteTaskCommentBegin(d, c)

Write(d, ctx, fault) ==
  CASE ctx.call.op = "create_organization" -> CreateOrganizationWrite(d, ctx, fault)
    [] ctx.call.op = "create_project" -> CreateProjectWrite(d, ctx, fault)
    [] ctx.call.op = "create_task" -> CreateTaskWrite(d, ctx, fault)
    [] ctx.call.op = "create_task_comment" -> CreateTaskCommentWrite(d, ctx, fault)
    [] ctx.call.op = "update_project" -> UpdateProjectWrite(d, ctx, fault)
    [] ctx.call.op = "update_task" -> UpdateTaskWrite(d, ctx, fault)
    [] ctx.call.op = "delete_project" -> DeleteProjectWrite(d, ctx, fault)
    [] ctx.call.op = "delete_task" -> DeleteTaskWrite(d, ctx, fault)
    [] ctx.call.op = "delete_task_comment" -> DeleteTaskCommentWrite(d, ctx, fault)

Mutate(d, c, fault) ==
  LET ctx == Begin(d, c)
  IN IF ctx.done THEN Out(d, ctx.result) ELSE Write(d, ctx, fault)

(***************************************************************************)
(* Inputs                                                                  *)
(***************************************************************************)
GoodEmail == <<"u", "@", "d", ".", "d">>

BadEmail == <<"u", "@", "d">>

OrgNames == {<<"a">>, <<"A", " ">>, <<"b", "!">>, <<"B">>}

Emails == {GoodEmail, BadEmail}

OptEmails == {Nothing, Some(<<>>), Some(GoodEmail), Some(BadEmail)}

Names == {"n1", "n2"}

OptNames == {Nothing} \cup {Some(n) : n \in Names}

OptDescriptions == {Nothing, Some(""), Some("d")}

OptProjectStatus ==
  {Nothing, Some(""), Some("ACTIVE"), Some("COMPLETED"), Some("ON_HOLD"), Some("DONE")}

OptTaskStatus ==
  {Nothing, Some(""), Some("TODO"), Some("IN_PROGRESS"), Some("DONE"), Some("ACTIVE")}

OptDates == {Nothing, Some("2026-01-01")}

Contents == {<<>>, <<" ">>, <<"x">>, <<" ", "x", " ">>, <<"x", " ", "x", " ">>}

\* primary keys a client may send: every key handed out so far and the next
\* one, which no row has
Keys(next) == 1..next

(***************************************************************************)
(* Initial databases: the empty one, and one holding two organizations,    *)
(* each with a project, tasks and a comment.                               *)
(***************************************************************************)
EmptyDB ==
  [organizations |-> <<>>, projects |-> <<>>, tasks |-> <<>>, comments |-> <<>>,
   nextId |-> [organization |-> 1, project |-> 1, task |-> 1, comment |-> 1]]

SeedDB ==
  [organizations |->
     <<[name |-> <<"a">>, slug |-> <<"a">>, contact_email |-> GoodEmail],
       [name |-> <<"B">>, slug |-> <<"b">>, contact_email |-> GoodEmail]>>,
   projects |->
     <<[organization |-> 1, name |-> "n1", description |-> "d",
        status |-> "ACTIVE", due_date |-> Nothing],
       [organization |-> 2, name |-> "n1", description |-> "",
        status |-> "ON_HOLD", due_date |-> Some("2026-01-01")]>>,
   tasks |->
     <<[project |-> 1, title |-> "n1", description |-> "d", status |-> "TODO",
        assignee_email |-> GoodEmail, due_date |-> Some("2026-01-01")],
       [project |-> 1, title |-> "n1", description |-> "", status |-> "DONE",
        assignee_email |-> <<>>, due_date |-> Nothing],
       [project |-> 2, title |-> "n1", description |-> "", status |-> "DONE",
        assignee_email |-> <<>>, due_date |-> Nothing]>>,
   comments |->
     <<[task |-> 1, content |-> <<"x">>, author_email |-> GoodEmail],
       [task |-> 3, content |-> <<"x">>, author_email |-> GoodEmail]>>,
   nextId |-> [organization |-> 3, project |-> 3, task |-> 4, comment |-> 3]]

SetDB(d) ==
  /\ organizations' = d.organizations
  /\ projects' = d.projects
  /\ tasks' = d.tasks
  /\ comments' = d.comments
  /\ nextId' = d.nextId

\* the two request workers of the concurrent specification
Requests == {"r1", "r2"}

NoCall == [op |-> "none"]

\* no response in flight
NoLast == [call |-> NoCall, fault |-> FALSE, result |-> Fail(<<>>)]

InitFrom(seeds) ==
  /\ \E d \in seeds : /\ organizations = d.organizations
                      /\ projects = d.projects
                      /\ tasks = d.tasks
                      /\ comments = d.comments
                      /\ nextId = d.nextId
  /\ reqs = [r \in Requests |-> <<>>]
  /\ last = NoLast
  /\ calls = 0

Init == InitFrom({EmptyDB, SeedDB})

(***************************************************************************)
(* Sequential specification: a client sends one call at a time, the whole  *)
(* handler runs as one step and leaves its payload in last until the       *)
(* client has read it.                                                     *)
(***************************************************************************)
\* the whole handler of call c; fault: the persistence step raises
Run(c, fault) ==
  /\ last = NoLast
  /\ LET ctx == Begin(DB, c)
         out == Mutate(DB, c, fault)
     IN /\ fault => ~ctx.done
        /\ SetDB(out.db)
        /\ last' = [call |-> c, fault |-> fault, result |-> out.result]
  /\ calls' = calls + 1
  /\ UNCHANGED reqs

CreateOrganization ==
  /\ calls < MaxCalls
  /\ \E name \in OrgNames, contact_email \in Emails, fault \in BOOLEAN :
       Run([op |-> "create_organization", name |-> name,
            contact_email |-> contact_email], fault)

CreateProject ==
  /\ calls < MaxCalls
  /\ \E organization_id \in Keys(nextId.organization), name \in Names,
        description \in OptDescriptions, status \in OptProjectStatus,
        due_date \in OptDates, fault \in BOOLEAN :
       Run([op |-> "create_project", organization_id |-> organization_id,
            name |-> name, description |-> description, status |-> status,
            due_date |-> due_date], fault)

CreateTask ==
  /\ calls < MaxCalls
  /\ \E project_id \in Keys(nextId.project), title \in Names,
        description \in OptDescriptions, status \in OptTaskStatus,
        assignee_email \in OptEmails, due_date \in OptDates, fault \in BOOLEAN :
       Run([op |-> "create_task", project_id |-> project_id, title |-> title,
            description |-> description, status |-> status,
            assignee_email |-> assignee_email, due_date |-> due_date], fault)

CreateTaskComment ==
  /\ calls < MaxCalls
  /\ \E task_id \in Keys(nextId.task), content \in Contents,
        author_email \in Emails, fault \in BOOLEAN :
       Run([op |-> "create_task_comment", task_id |-> task_id,
            content |-> content, author_email |-> author_email], fault)

UpdateProject ==
  /\ calls < MaxCalls
  /\ \E project_id \in Keys(nextId.project), name \in OptNames,
        description \in OptDescriptions, status \in OptProjectStatus,
        due_date \in OptDates, fault \in BOOLEAN :
       Run([op |-> "update_project", project_id |-> project_id, name |-> name,
            description |-> description, status |-> status,
            due_date |-> due_date], fault)

UpdateTask ==
  /\ calls < MaxCalls
  /\ \E task_id \in Keys(nextId.task), title \in OptNames,
        description \in OptDescriptions, status \in OptTaskStatus,
        assignee_email \in OptEmails, due_date \in OptDates, fault \in BOOLEAN :
       Run([op |-> "update_task", task_id |-> task_id, title |-> title,
            description |-> description, status |-> status,
            assignee_email |-> assignee_email, due_date |-> due_date], fault)

DeleteProject ==
  /\ calls < MaxCalls
  /\ \E project_id \in Keys(nextId.project), fault \in BOOLEAN :
       Run([op |-> "delete_project", project_id |-> project_id], fault)

DeleteTask ==
  /\ calls < MaxCalls
  /\ \E task_id \in Keys(nextId.task), fault \in BOOLEAN :
       Run([op |-> "delete_task", task_id |-> task_id], fault)

DeleteTaskComment ==
  /\ calls < MaxCalls
  /\ \E comment_id \in Keys(nextId.comment), fault \in BOOLEAN :
       Run([op |-> "delete_task_comment", comment_id |-> comment_id], fault)

Slugs == {<<"a">>, <<"b">>, <<"a", "-", "b">>}

ProjectStatistics ==
  /\ last = NoLast
  /\ \E organization_slug \in Slugs :
       last' = [call |-> [op |-> "project_statistics",
                          organization_slug |-> organization_slug],
                fault |-> FALSE,
                result |-> resolve_project_statistics(DB, organization_slug)]
  /\ UNCHANGED <<organizations, projects, tasks, comments, nextId, reqs, calls>>

\* the client reads the response
Deliver ==
  /\ last # NoLast
  /\ last' = NoLast
  /\ UNCHANGED <<organizations, projects, tasks, comments, nextId, reqs, calls>>

Next ==
  \/ CreateOrganization
  \/ CreateProject
  \/ CreateTask
  \/ CreateTaskComment
  \/ UpdateProject
  \/ UpdateTask
  \/ DeleteProject
  \/ DeleteTask
  \/ DeleteTaskComment
  \/ ProjectStatistics
  \/ Deliver

Spec == Init /\ [][Next]_vars

(***************************************************************************)
(* Concurrent specification: two request workers share the database.  A    *)
(* handler's lookups and validation read the committed state when they     *)
(* run (Start); its atomic block commits later (Commit), after whatever    *)
(* the other worker committed in between.  Each worker serves one call and *)
(* keeps its payload; no persistence fault is injected here.               *)
(***************************************************************************)
SmallDB ==
  [organizations |->
     <<[name |-> <<"a">>, slug |-> <<"a">>, contact_email |-> GoodEmail]>>,
   projects |->
     <<[organization |-> 1, name |-> "n1", description |-> "d",
        status |-> "ACTIVE", due_date |-> Nothing]>>,
   tasks |->
     <<[project |-> 1, title |-> "n1", description |-> "d", status |-> "TODO",
        assignee_email |-> GoodEmail, due_date |-> Nothing]>>,
   comments |-> <<>>,
   nextId |-> [organization |-> 2, project |-> 2, task |-> 2, comment |-> 1]]

ConcInit == InitFrom({EmptyDB, SmallDB})

ConcProjectStatus == {Nothing, Some("COMPLETED"), Some("ON_HOLD")}

ConcTaskStatus == {Nothing, Some("IN_PROGRESS"), Some("DONE")}

ConcEmails == {Nothing, Some(<<>>)}

\* worker r runs the handler of call c up to its atomic block
Start(r, c) ==
  /\ reqs[r] = <<>>
  /\ reqs' = [reqs EXCEPT ![r] = <<Begin(DB, c)>>]
  /\ UNCHANGED <<organizations, projects, tasks, comments, nextId, last, calls>>

StartCreateOrganization ==
  \E r \in Requests, name \in OrgNames, contact_email \in Emails :
    Start(r, [op |-> "create_organization", name |-> name,
              contact_email |-> contact_email])

StartUpdateProject ==
  \E r \in Requests, project_id \in Ids(projects), name \in OptNames,
     description \in OptDescriptions, status \in ConcProjectStatus,
     due_date \in OptDates :
    Start(r, [op |-> "update_project", project_id |-> project_id, name |-> name,
              description |-> description, status |-> status,
              due_date |-> due_date])

StartUpdateTask ==
  \E r \in Requests, task_id \in Ids(tasks), title \in OptNames,
     description \in OptDescriptions, status \in ConcTaskStatus,
     assignee_email \in ConcEmails, due_date \in OptDates :
    Start(r, [op |-> "update_task", task_id |-> task_id, title |-> title,
              description |-> description, status |-> status,
              assignee_email |-> assignee_email, due_date |-> due_date])

\* worker r's atomic block commits; at is its position in the commit order
Commit ==
  \E r \in Requests :
    /\ reqs[r] # <<>>
    /\ ~reqs[r][1].done
    /\ LET ctx == reqs[r][1]
           out == Write(DB, ctx, FALSE)
       IN /\ SetDB(out.db)
          /\ reqs' = [reqs EXCEPT ![r] = <<[ctx EXCEPT !.done = TRUE,
                                                       !.result = out.result,
                                                       !.at = calls + 1]>>]
    /\ calls' = calls + 1
    /\ UNCHANGED last

ConcNext ==
  \/ StartCreateOrganization
  \/ StartUpdateProject
  \/ StartUpdateTask
  \/ Commit

ConcSpec == ConcInit /\ [][ConcNext]_vars

(***************************************************************************)
(* Concurrent creates, deletes and saves along the ownership chain: the two *)
(* workers serve one call after the other.  Besides Start and Commit, the   *)
(* collector of project.delete() may read the cascading tasks in a step of  *)
(* its own, before the transaction of the deletes.                          *)
(***************************************************************************)
\* number of atomic blocks that commit
MaxCommits == 3

TreeDB ==
  [SmallDB EXCEPT
     !.comments = <<[task |-> 1, content |-> <<"x">>, author_email |-> GoodEmail]>>,
     !.nextId.comment = 2]

TreeInit == InitFrom({TreeDB})

StartCreateProject ==
  \E r \in Requests, organization_id \in Keys(nextId.organization) :
    Start(r, [op |-> "create_project", organization_id |-> organization_id,
              name |-> "n1", description |-> Nothing, status |-> Nothing,
              due_date |-> Nothing])

StartCreateTask ==
  \E r \in Requests, project_id \in Keys(nextId.project) :
    Start(r, [op |-> "create_task", project_id |-> project_id, title |-> "n1",
              description |-> Nothing, status |-> Nothing,
              assignee_email |-> Nothing, due_date |-> Nothing])

StartCreateTaskComment ==
  \E r \in Requests, task_id \in Keys(nextId.task) :
    Start(r, [op |-> "create_task_comment", task_id |-> task_id,
              content |-> <<"x">>, author_email |-> GoodEmail])

StartDeleteProject ==
  \E r \in Requests, project_id \in Keys(nextId.project) :
    Start(r, [op |-> "delete_project", project_id |-> project_id])

StartDeleteTask ==
  \E r \in Requests, task_id \in Keys(nextId.task) :
    Start(r, [op |-> "delete_task", task_id |-> task_id])

StartDeleteTaskComment ==
  \E r \in Requests, comment_id \in Keys(nextId.comment) :
    Start(r, [op |-> "delete_task_comment", comment_id |-> comment_id])

StartRenameProject ==
  \E r \in Requests, project_id \in Keys(nextId.project) :
    Start(r, [op |-> "update_project", project_id |-> project_id,
              name |-> Some("n2"), description |-> Nothing, status |-> Nothing,
              due_date |-> Nothing])

StartRenameTask ==
  \E r \in Requests, task_id \in Keys(nextId.task) :
    Start(r, [op |-> "update_task", task_id |-> task_id, title |-> Some("n2"),
              description |-> Nothing, status |-> Nothing,
              assignee_email |-> Nothing, due_date |-> Nothing])

\* worker r's project.delete() collects the tasks that cascade
Collect ==
  \E r \in Requests :
    /\ reqs[r] # <<>>
    /\ ~reqs[r][1].done
    /\ reqs[r][1].call.op = "delete_project"
    /\ reqs[r][1].obj = <<>>
    /\ reqs' = [reqs EXCEPT ![r] = <<DeleteProjectCollect(DB, reqs[r][1])>>]
    /\ UNCHANGED <<organizations, projects, tasks, comments, nextId, last, calls>>

CommitNext ==
  /\ calls < MaxCommits
  /\ Commit

\* worker r has returned its payload and takes the next request
Return ==
  \E r \in Requests :
    /\ reqs[r] # <<>>
    /\ reqs[r][1].done
    /\ reqs' = [reqs EXCEPT ![r] = <<>>]
    /\ UNCHANGED <<organizations, projects, tasks, comments, nextId, last, calls>>

TreeNext ==
  \/ StartCreateProject
  \/ StartCreateTask
  \/ StartCreateTaskComment
  \/ StartDeleteProject
  \/ StartDeleteTask
  \/ StartDeleteTaskComment
  \/ StartRenameProject
  \/ StartRenameTask
  \/ Collect
  \/ CommitNext
  \/ Return

TreeSpec == TreeInit /\ [][TreeNext]_vars

(***************************************************************************)
(* Properties of the sequential specification.  A step in which a handler  *)
(* ran is one that puts a payload into last; the unprimed tables are the   *)
(* stored state before the call, the primed ones the state after it.       *)
(***************************************************************************)
Handled(ops) == last' # NoLast /\ last'.call.op \in ops

Stored == <<organizations, projects, tasks, comments>>

\* a status argument that is supplied, not empty and outside the allowed set
BadStatus(o, choices) == o # Nothing /\ o[1] # "" /\ o[1] \notin choices

\* an optional e-mail argument that is supplied, not empty and malformed
BadOptEmail(o) == o # Nothing /\ o[1] # <<>> /\ ~validate_email(o[1])

\* the content is blank: nothing but whitespace
Blank(content) == \A i \in 1..Len(content) : content[i] = " "

\* the parent (create) or target (update) row of call c is not stored
MissingRow(c) ==
  CASE c.op = "create_project" -> c.organization_id \notin DOMAIN organizations
    [] c.op \in {"create_task", "update_project"} -> c.project_id \notin DOMAIN projects
    [] c.op \in {"create_task_comment", "update_task"} -> c.task_id \notin DOMAIN tasks
    [] OTHER -> FALSE

NotFoundMessage(c) ==
  CASE c.op = "create_project" -> "Organization not found"
    [] c.op \in {"create_task", "update_project"} -> "Project not found"
    [] c.op \in {"create_task_comment", "update_task"} -> "Task not found"

\* the messages of the input validations of call c that fail
InputErrors(c) ==
  CASE c.op = "create_organization" ->
         {m \in {"Invalid email format"} : ~validate_email(c.contact_email)}
         \cup {m \in {"Organization with this slug already exists"} :
                 \E o \in DOMAIN organizations :
                   organizations[o].slug = Slugify(Lower(c.name))}
    [] c.op \in {"create_project", "update_project"} ->
         {m \in {"Invalid status choice"} : BadStatus(c.status, STATUS_CHOICES)}
    [] c.op \in {"create_task", "update_task"} ->
         {m \in {"Invalid status choice"} : BadStatus(c.status, TASK_STATUS_CHOICES)}
         \cup {m \in {"Invalid assignee email format"} : BadOptEmail(c.assignee_email)}
    [] c.op = "create_task_comment" ->
         {m \in {"Invalid author email format"} : ~validate_email(c.author_email)}
         \cup {m \in {"Comment content cannot be empty"} : Blank(c.content)}

CreateUpdateOps ==
  {"create_organization", "create_project", "create_task", "create_task_comment",
   "update_project", "update_task"}

C2_StatusInChoices ==
  /\ \A p \in DOMAIN projects : projects[p].status \in STATUS_CHOICES
  /\ \A t \in DOMAIN tasks : tasks[t].status \in TASK_STATUS_CHOICES

\* C3: a successful update_task / update_project leaves every omitted field
\* of the targeted row, every other row and every other table as it was.
C3_UpdateChangesOnlySupplied ==
  [][/\ (Handled({"update_task"}) /\ last'.result.success) =>
          LET c == last'.call
              id == c.task_id
          IN /\ id \in DOMAIN tasks /\ DOMAIN tasks' = DOMAIN tasks
             /\ tasks'[id].project = tasks[id].project
             /\ c.title = Nothing => tasks'[id].title = tasks[id].title
             /\ c.description = Nothing =>
                  tasks'[id].description = tasks[id].description
             /\ c.status = Nothing => tasks'[id].status = tasks[id].status
             /\ c.assignee_email = Nothing =>
                  tasks'[id].assignee_email = tasks[id].assignee_email
             /\ c.due_date = Nothing => tasks'[id].due_date = tasks[id].due_date
             /\ \A t \in DOMAIN tasks \ {id} : tasks'[t] = tasks[t]
             /\ UNCHANGED <<organizations, projects, comments>>
     /\ (Handled({"update_project"}) /\ last'.result.success) =>
          LET c == last'.call
              id == c.project_id
          IN /\ id \in DOMAIN projects /\ DOMAIN projects' = DOMAIN projects
             /\ projects'[id].organization = projects[id].organization
             /\ c.name = Nothing => projects'[id].name = projects[id].name
             /\ c.description = Nothing =>
                  projects'[id].description = projects[id].description
             /\ c.status = Nothing => projects'[id].status = projects[id].status
             /\ c.due_date = Nothing =>
                  projects'[id].due_date = projects[id].due_date
             /\ \A q \in DOMAIN projects \ {id} : projects'[q] = projects[q]
             /\ UNCHANGED <<organizations, tasks, comments>>]_vars

\* update_task with only status supplied succeeded on the seeded task 1, whose
\* other fields all hold a value
C3_Witness ==
  /\ last.call.op = "update_task"
  /\ last.result.success
  /\ last.call.task_id = 1
  /\ last.call.status = Some("IN_PROGRESS")
  /\ last.call.title = Nothing /\ last.call.description = Nothing
  /\ last.call.assignee_email = Nothing /\ last.call.due_date = Nothing
  /\ tasks[1] = [SeedDB.tasks[1] EXCEPT !.status = "IN_PROGRESS"]

\* the rows of p's subtree
OwnedTasks(p) == {t \in DOMAIN tasks : tasks[t].project = p}

OwnedComments(ts) == {k \in DOMAIN comments : comments[k].task \in ts}

\* table after is table before without exactly the rows gone
Removes(before, after, gone) ==
  /\ DOMAIN after = DOMAIN before \ gone
  /\ \A k \in DOMAIN after : after[k] = before[k]

\* C4: a successful delete removes exactly the row and the rows it owns
\* (delete_project: the project, its tasks, their comments; delete_task: the
\* task and its comments; delete_task_comment: the comment); a delete of an
\* id that no row has fails with the not-found error and changes nothing.
C4_DeleteCascadesExactly ==
  [][/\ Handled({"delete_project"}) =>
          LET p == last'.call.project_id IN
          IF p \in DOMAIN projects
          THEN last'.result.success =>
                 /\ Removes(projects, projects', {p})
                 /\ Removes(tasks, tasks', OwnedTasks(p))
                 /\ Removes(comments, comments', OwnedComments(OwnedTasks(p)))
                 /\ UNCHANGED organizations
          ELSE last'.result = Fail(<<"Project not found">>) /\ UNCHANGED Stored
     /\ Handled({"delete_task"}) =>
          LET t == last'.call.task_id IN
          IF t \in DOMAIN tasks
          THEN last'.result.success =>
                 /\ Removes(tasks, tasks', {t})
                 /\ Removes(comments, comments', OwnedComments({t}))
                 /\ UNCHANGED <<organizations, projects>>
          ELSE last'.result = Fail(<<"Task not found">>) /\ UNCHANGED Stored
     /\ Handled({"delete_task_comment"}) =>
          LET k == last'.call.comment_id IN
          IF k \in DOMAIN comments
          THEN last'.result.success =>
                 /\ Removes(comments, comments', {k})
                 /\ UNCHANGED <<organizations, projects, tasks>>
          ELSE last'.result = Fail(<<"Comment not found">>) /\ UNCHANGED Stored]_vars

\* delete_project(1) succeeded on the seeded database: project 1, its tasks 1
\* and 2 and comment 1 are gone, project 2 with task 3 and comment 2 remains
C4_Witness ==
  /\ last.call.op = "delete_project"
  /\ last.call.project_id = 1
  /\ last.result.success
  /\ DOMAIN projects = {2} /\ DOMAIN tasks = {3} /\ DOMAIN comments = {2}

\* the elements of a sequence
Range(seq) == {seq[i] : i \in 1..Len(seq)}

ParentOps ==
  {"create_project", "create_task", "create_task_comment", "update_project",
   "update_task"}

OrgsWithSlug(slug) == {o \in DOMAIN organizations : organizations[o].slug = slug}

ProjectsIn(o, statuses) ==
  {p \in DOMAIN projects :
     projects[p].organization = o /\ projects[p].status \in statuses}

AllStatuses == {projects[p].status : p \in DOMAIN projects}

TasksIn(o) ==
  {t \in DOMAIN tasks :
     /\ tasks[t].project \in DOMAIN projects
     /\ projects[tasks[t].project].organization = o}

\* C7: project_statistics of a stored organization's slug returns the number
\* of the organization's projects, of those ACTIVE, COMPLETED and ON_HOLD,
\* the number of tasks of its projects and of those DONE, and as completion
\* rate the tenth of a percent nearest to 100 * completed / total (0 without
\* tasks); for a slug no organization has it raises.
C7_StatisticsCountOwnRows ==
  last.call.op = "project_statistics" =>
    LET r == last.result
        orgs == OrgsWithSlug(last.call.organization_slug)
    IN IF orgs = {} THEN r.raised
       ELSE /\ ~r.raised
            /\ \A o \in orgs :
                 LET done == {t \in TasksIn(o) : tasks[t].status = "DONE"} IN
                 /\ r.total_projects = Cardinality(ProjectsIn(o, AllStatuses))
                 /\ r.active_projects = Cardinality(ProjectsIn(o, {"ACTIVE"}))
                 /\ r.completed_projects = Cardinality(ProjectsIn(o, {"COMPLETED"}))
                 /\ r.on_hold_projects = Cardinality(ProjectsIn(o, {"ON_HOLD"}))
                 /\ r.total_tasks = Cardinality(TasksIn(o))
                 /\ r.completed_tasks = Cardinality(done)
                 /\ IF TasksIn(o) = {} THEN r.completion_rate = 0
                    ELSE LET exact == 1000 * Cardinality(done)
                             given == r.completion_rate * Cardinality(TasksIn(o))
                         IN /\ 2 * (given - exact) <= Cardinality(TasksIn(o))
                            /\ 2 * (exact - given) <= Cardinality(TasksIn(o))

\* two of the three tasks of organization "a" are DONE, those of the other
\* organization are not counted: 66.7
C7_Witness ==
  /\ last.call.op = "project_statistics"
  /\ last.call.organization_slug = <<"a">>
  /\ ~last.result.raised
  /\ last.result.total_tasks = 3
  /\ last.result.completed_tasks = 2
  /\ last.result.completion_rate = 667
  /\ Cardinality(DOMAIN tasks) = 4

AllOps == CreateUpdateOps \cup {"delete_project", "delete_task", "delete_task_comment"}

\* C10: when the persistence step of a mutation raises, the mutation returns
\* the payload success = false with the exception's message as its only
\* error and the stored tables are what they were before the call.
C10_PersistenceFailureRollsBack ==
  [][(Handled(AllOps) /\ last'.fault)
     => /\ last'.result = Fail(<<DatabaseError>>)
        /\ UNCHANGED Stored]_vars

\* the delete of project 1 raised: its tasks and their comment are still stored
C10_Witness ==
  /\ last.call.op = "delete_project"
  /\ last.fault
  /\ ~last.result.success
  /\ last.call.project_id = 1
  /\ 1 \in DOMAIN projects
  /\ OwnedComments(OwnedTasks(1)) # {}

\* t is content without its leading and trailing whitespace
Trimmed(content, t) ==
  /\ t = <<>> \/ (t[1] # " " /\ t[Len(t)] # " ")
  /\ \E i \in 0..Len(content) :
       /\ i + Len(t) <= Len(content)
       /\ SubSeq(content, i + 1, i + Len(t)) = t
       /\ Blank(SubSeq(content, 1, i))
       /\ Blank(SubSeq(content, i + Len(t) + 1, Len(content)))

\* C11: create_task_comment on a stored task with a well-formed author
\* e-mail (and no failure of the persistence step): when the content is empty
\* after trimming, the payload is success = false with the content-empty
\* error and the tables are unchanged; otherwise the call succeeds and the
\* comments table gains exactly one row, for that task, whose content is the
\* trimmed content, and no other row of any table changes.
C11_CommentStoredTrimmed ==
  [][(/\ Handled({"create_task_comment"})
      /\ last'.call.task_id \in DOMAIN tasks
      /\ validate_email(last'.call.author_email)
      /\ ~last'.fault)
     => LET c == last'.call
            r == last'.result
        IN IF Trimmed(c.content, <<>>)
           THEN /\ r = Fail(<<"Comment content cannot be empty">>)
                /\ UNCHANGED Stored
           ELSE /\ r.success /\ r.errors = <<>>
                /\ \E k \in DOMAIN comments' \ DOMAIN comments :
                     /\ DOMAIN comments' = DOMAIN comments \cup {k}
                     /\ r.entity = <<k>>
                     /\ comments'[k].task = c.task_id
                     /\ comments'[k].author_email = c.author_email
                     /\ Trimmed(c.content, comments'[k].content)
                /\ \A k \in DOMAIN comments : comments'[k] = comments[k]
                /\ UNCHANGED <<organizations, projects, tasks>>]_vars

\* a comment sent as " x " for the seeded task 2, which had none, is stored
\* as "x"
C11_Witness ==
  /\ last.call.op = "create_task_comment"
  /\ last.call.task_id = 2
  /\ last.call.content = <<" ", "x", " ">>
  /\ last.result.success
  /\ \E k \in DOMAIN comments :
       comments[k].task = 2 /\ comments[k].content = <<"x">>

\* C12: update_task on a stored task.  With assignee_email omitted the stored
\* assignee_email stays what it was.  The empty string is not validated as an
\* e-mail: the call does not fail for it and, when it succeeds, the stored
\* assignee_email is the empty string.  A non-empty string that is a
\* well-formed e-mail is stored likewise; one that is not makes the call fail
\* with the assignee-e-mail error and the tables unchanged.
C12_AssigneeEmailThreeCases ==
  [][(Handled({"update_task"}) /\ last'.call.task_id \in DOMAIN tasks)
     => LET c == last'.call
            r == last'.result
            id == c.task_id
            accepted(value) ==
              /\ "Invalid assignee email format" \notin Range(r.errors)
              /\ (~BadStatus(c.status, TASK_STATUS_CHOICES) /\ ~last'.fault)
                   => r.success
              /\ r.success =>
                   id \in DOMAIN tasks' /\ tasks'[id].assignee_email = value
              /\ ~r.success => UNCHANGED Stored
        IN IF c.assignee_email = Nothing
           THEN /\ id \in DOMAIN tasks'
                /\ tasks'[id].assignee_email = tasks[id].assignee_email
                /\ "Invalid assignee email format" \notin Range(r.errors)
           ELSE IF c.assignee_email[1] = <<>> THEN accepted(<<>>)
           ELSE IF validate_email(c.assignee_email[1])
                THEN accepted(c.assignee_email[1])
                ELSE /\ ~r.success
                     /\ "Invalid assignee email format" \in Range(r.errors)
                     /\ UNCHANGED Stored]_vars

\* update_task(1, assignee_email = "") succeeded on the seeded task 1, which
\* had an assignee: the stored assignee_email is empty now
C12_Witness ==
  /\ last.call.op = "update_task"
  /\ last.call.task_id = 1
  /\ last.call.assignee_email = Some(<<>>)
  /\ last.result.success
  /\ SeedDB.tasks[1].assignee_email # <<>>
  /\ tasks[1] = [SeedDB.tasks[1] EXCEPT
                   !.assignee_email = <<>>,
                   !.title = IF last.call.title # Nothing THEN last.call.title[1] ELSE @,
                   !.description = IF last.call.description # Nothing
                                   THEN last.call.description[1] ELSE @,
                   !.status = IF last.call.status # Nothing
                              THEN last.call.status[1] ELSE @,
                   !.due_date = IF last.call.due_date # Nothing
                                THEN last.call.due_date ELSE @]

\* C14 (as claimed): in every reachable state the statistics of every stored
\* organization have total_projects = active_projects + completed_projects +
\* on_hold_projects and 0 <= completed_tasks <= total_tasks, with a
\* completion rate between 0 and 100 percent.
C14_StatisticsAddUp ==
  \A o \in DOMAIN organizations :
    LET r == resolve_project_statistics(DB, organizations[o].slug)
    IN /\ ~r.raised
       /\ r.total_projects =
            r.active_projects + r.completed_projects + r.on_hold_projects
       /\ 0 <= r.completed_tasks /\ r.completed_tasks <= r.total_tasks
       /\ 0 <= r.completion_rate /\ r.completion_rate <= 1000

(***************************************************************************)
(* Properties of the concurrent specification                              *)
(***************************************************************************)
\* worker r has returned its payload
Finished(r) == reqs[r] # <<>> /\ reqs[r][1].done

\* worker r returns its payload in this step
Finishes(r) ==
  /\ reqs'[r] # <<>> /\ reqs'[r][1].done
  /\ reqs[r] = <<>> \/ ~reqs[r][1].done

DuplicateSlugErrors ==
  {"Organization with this slug already exists", IntegrityErrorUnique}

\* C5: no two stored organizations have the same slug, however the two
\* create_organization requests interleave; and a create_organization that
\* returns while an organization with the slug of its name is stored returns
\* success = false with a duplicate-slug error (the handler's own or the
\* unique constraint's) and stores no row.
C5_SlugsUnique ==
  [][/\ \A o1, o2 \in DOMAIN organizations' :
          organizations'[o1].slug = organizations'[o2].slug => o1 = o2
     /\ \A r \in Requests :
          (/\ Finishes(r)
           /\ reqs'[r][1].call.op = "create_organization"
           /\ OrgsWithSlug(Slugify(Lower(reqs'[r][1].call.name))) # {})
          => /\ ~reqs'[r][1].result.success
             /\ reqs'[r][1].result.entity = <<>>
             /\ Range(reqs'[r][1].result.errors) \cap DuplicateSlugErrors # {}
             /\ organizations' = organizations]_vars

\* both requests passed the exists-check for the same slug before either
\* inserted; one row is stored and the later insert was refused
C5_Witness ==
  /\ \A r \in Requests :
       /\ Finished(r)
       /\ reqs[r][1].call.op = "create_organization"
       /\ reqs[r][1].at > 0
       /\ Slugify(Lower(reqs[r][1].call.name)) = <<"b">>
  /\ reqs["r1"][1].call.name # reqs["r2"][1].call.name
  /\ \E r \in Requests : reqs[r][1].result.errors = <<IntegrityErrorUnique>>
  /\ Cardinality(OrgsWithSlug(<<"b">>)) = 1

TaskFields == {"title", "description", "status", "assignee_email", "due_date"}

ProjectFields == {"name", "description", "status", "due_date"}

\* the optional arguments call c supplies
Supplied(c, fields) == {f \in fields : c[f] # Nothing}

\* the value call c supplies for field f, as it is stored
SuppliedValue(c, f) == IF f = "due_date" THEN c[f] ELSE c[f][1]

\* both workers have returned from a successful op on the same row
BothUpdated(op, key) ==
  /\ \A r \in Requests :
       Finished(r) /\ reqs[r][1].call.op = op /\ reqs[r][1].result.success
  /\ reqs["r1"][1].call[key] = reqs["r2"][1].call[key]

\* C8 (as claimed): after two successful updates of the same row that supply
\* disjoint sets of fields, the stored row carries every field either of them
\* supplied.
C8_DisjointUpdatesBothKept ==
  /\ (/\ BothUpdated("update_task", "task_id")
      /\ Supplied(reqs["r1"][1].call, TaskFields)
           \cap Supplied(reqs["r2"][1].call, TaskFields) = {})
     => \A r \in Requests : \A f \in Supplied(reqs[r][1].call, TaskFields) :
          tasks[reqs[r][1].call.task_id][f] = SuppliedValue(reqs[r][1].call, f)
  /\ (/\ BothUpdated("update_project", "project_id")
      /\ Supplied(reqs["r1"][1].call, ProjectFields)
           \cap Supplied(reqs["r2"][1].call, ProjectFields) = {})
     => \A r \in Requests : \A f \in Supplied(reqs[r][1].call, ProjectFields) :
          projects[reqs[r][1].call.project_id][f] = SuppliedValue(reqs[r][1].call, f)

UpdateOps == {"update_project", "update_task"}

\* C9: an update that found its row and passed validation succeeds whatever
\* the other update committed meanwhile, and once both updates of a row have
\* committed, a field both supplied holds the value of the later commit.
C9_LastWriterWins ==
  /\ \A r \in Requests :
       (Finished(r) /\ reqs[r][1].call.op \in UpdateOps /\ reqs[r][1].at > 0)
       => reqs[r][1].result.success
  /\ \A r, w \in Requests :
       (/\ BothUpdated("update_task", "task_id")
        /\ reqs[r][1].at < reqs[w][1].at)
       => \A f \in Supplied(reqs[r][1].call, TaskFields)
                     \cap Supplied(reqs[w][1].call, TaskFields) :
            tasks[reqs[w][1].call.task_id][f] = SuppliedValue(reqs[w][1].call, f)
  /\ \A r, w \in Requests :
       (/\ BothUpdated("update_project", "project_id")
        /\ reqs[r][1].at < reqs[w][1].at)
       => \A f \in Supplied(reqs[r][1].call, ProjectFields)
                     \cap Supplied(reqs[w][1].call, ProjectFields) :
            projects[reqs[w][1].call.project_id][f] = SuppliedValue(reqs[w][1].call, f)

\* both updates loaded task 1 before either committed and supplied different
\* statuses; r2 committed last and its status is stored
C9_Witness ==
  /\ BothUpdated("update_task", "task_id")
  /\ reqs["r1"][1].obj = reqs["r2"][1].obj
  /\ reqs["r1"][1].call.status = Some("DONE")
  /\ reqs["r2"][1].call.status = Some("IN_PROGRESS")
  /\ reqs["r1"][1].at = 1 /\ reqs["r2"][1].at = 2
  /\ tasks[1].status = "IN_PROGRESS"

(***************************************************************************)
(* Properties of the specification of concurrent creates and deletes       *)
(***************************************************************************)
\* C13: in every reachable state, whatever the interleaving of the creates,
\* deletes and saves, every stored project references a stored organization,
\* every stored task a stored project and every stored comment a stored task.
C13_NoOrphanRows ==
  /\ \A p \in DOMAIN projects : projects[p].organization \in DOMAIN organizations
  /\ \A t \in DOMAIN tasks : tasks[t].project \in DOMAIN projects
  /\ \A k \in DOMAIN comments : comments[k].task \in DOMAIN tasks

\* a create_task looked up project 1, a delete_project removed the project
\* before the task was inserted, and the insert was refused
C13_Witness ==
  \E r, w \in Requests :
    /\ Finished(r) /\ Finished(w)
    /\ reqs[r][1].call.op = "create_task"
    /\ reqs[r][1].call.project_id = 1
    /\ reqs[w][1].call.op = "delete_project"
    /\ reqs[w][1].call.project_id = 1
    /\ reqs[w][1].result.success
    /\ 0 < reqs[w][1].at /\ reqs[w][1].at < reqs[r][1].at
    /\ reqs[r][1].result = Fail(<<IntegrityErrorForeignKey>>)
    /\ DOMAIN projects = {} /\ DOMAIN tasks = {}

====
